---- MODULE Spec2Model ----
(***************************************************************************)
(* File System Analyzer (main.py): analyze_directory walks a directory     *)
(* tree, submits one analyze_file task per file to a thread pool, and the  *)
(* calling thread folds the results, in completion order, into three       *)
(* aggregates: category totals, large files, unusual permissions.          *)
(***************************************************************************)
EXTENDS Integers, Sequences, FiniteSets, TLC

\* ---------------------------------------------------------------- bounds
MaxFiles == 2       \* files present under the root: 0..MaxFiles
MaxSize == 1        \* file sizes in bytes: 0..MaxSize
MaxThreshold == 1   \* --size-threshold values: 0..MaxThreshold
MaxWorkers == 2     \* pool sizes (max_workers of the executor): 1..MaxWorkers
MaxMode == 15       \* st_mode values tried on a single analyze_file call

\* stat.S_IWOTH, stat.S_IROTH, stat.S_IXOTH: the "other" permission bits
S_IWOTH == 2
S_IROTH == 4
S_IXOTH == 1

\* ---------------------------------------------------------- the file tree
\* The entries that may exist under the root and are not directories.  dir is
\* the directory below the root, name the entry's name split at its dots, mode
\* the low bits of st_mode, kind what the entry is: a regular file, a symbolic
\* link to a regular file, or a named pipe.  A run has the first numFiles of
\* them.
Universe ==
  << [dir |-> <<>>,              name |-> <<"a", "txt">>, mode |-> 6, kind |-> "regular"],
     [dir |-> <<"sub">>,         name |-> <<"b", "TXT">>, mode |-> 0, kind |-> "symlink"],
     [dir |-> <<>>,              name |-> <<"c", "png">>, mode |-> 5, kind |-> "regular"],
     [dir |-> <<"sub", "deep">>, name |-> <<"d", "sh">>,  mode |-> 1, kind |-> "fifo"] >>

\* The directories of the tree that cannot be listed (os.scandir raises on
\* them); <<>> is the root
VARIABLE unreadable

\* os.path.join(root, file)
PathJoin(root, file) == [dir |-> root, name |-> file]

PathOf(i) == PathJoin(Universe[i].dir, Universe[i].name)

IsPrefix(d, e) == Len(d) <= Len(e) /\ SubSeq(e, 1, Len(d)) = d

\* The file names os.walk lists for directory d, when the tree holds n files
RECURSIVE FilesIn(_, _, _)
FilesIn(n, d, i) ==
  IF i > n THEN <<>>
  ELSE (IF Universe[i].dir = d THEN <<Universe[i].name>> ELSE <<>>)
       \o FilesIn(n, d, i + 1)

\* The directories directly below d
SubDirs(n, d) ==
  { SubSeq(Universe[i].dir, 1, Len(d) + 1) :
      i \in { j \in 1..n : IsPrefix(d, Universe[j].dir)
                           /\ Len(Universe[j].dir) > Len(d) } }

RECURSIVE SetToSeq(_)
SetToSeq(S) ==
  IF S = {} THEN <<>>
  ELSE LET x == CHOOSE y \in S : TRUE IN <<x>> \o SetToSeq(S \ {x})

\* Every entry joined twice
RECURSIVE JoinAllTwice(_, _)
JoinAllTwice(root, files) ==
  IF files = <<>> THEN <<>>
  ELSE <<PathJoin(root, Head(files)), PathJoin(root, Head(files))>>
       \o JoinAllTwice(root, Tail(files))

RECURSIVE JoinAll(_, _)
JoinAll(root, files) ==
  IF files = <<>> THEN <<>>
  ELSE <<PathJoin(root, Head(files))>> \o JoinAll(root, Tail(files))

\* for root, dirs, files in os.walk(directory): for file in files:
\* the paths in the order the loop meets them (top-down: a directory's own
\* files, then each subdirectory in turn).  os.walk is called without
\* onerror: a directory that cannot be listed yields nothing and nothing is
\* reported for it.
RECURSIVE Walk(_, _)
RECURSIVE WalkDirs(_, _)
Walk(n, d) ==
  IF d \in unreadable THEN <<>>
  ELSE JoinAll(d, FilesIn(n, d, 1)) \o WalkDirs(n, SetToSeq(SubDirs(n, d)))
WalkDirs(n, ds) ==
  IF ds = <<>> THEN <<>> ELSE Walk(n, Head(ds)) \o WalkDirs(n, Tail(ds))

\* ------------------------------------------------------------ get_category
EXTENSION_CATEGORIES ==
  [ text       |-> {"txt", "md", "csv", "log"},
    image      |-> {"jpg", "jpeg", "png", "gif"},
    executable |-> {"exe", "bin", "sh"},
    archive    |-> {"zip", "tar", "gz", "bz2"},
    audio      |-> {"mp3", "wav"},
    video      |-> {"mp4", "avi"},
    document   |-> {"pdf", "doc", "docx"} ]

\* str.lower() on the extensions of the tree
Lower(s) ==
  CASE s = "TXT" -> "txt" [] s = "PNG" -> "png" [] s = "SH" -> "sh"
    [] s = "PDF" -> "pdf" [] s = "Mp3" -> "mp3" [] s = "XYZ" -> "xyz"
    [] OTHER -> s

\* os.path.splitext(file_path)[1] without its dot: the text after the last dot
\* (a name that only begins with a dot has no extension)
SplitExt(path) ==
  IF Len(path.name) > 1 /\ ~(Len(path.name) = 2 /\ path.name[1] = "")
    THEN path.name[Len(path.name)] ELSE ""

\* mimetypes.guess_type(file_path)[0].split("/")[0], "" when the type is None
\* (guess_type takes a final .gz or .bz2 as an encoding and types the
\* extension before it)
MimeExt(path) ==
  LET n == Len(path.name)
  IN IF Lower(SplitExt(path)) \in {"gz", "bz2"}
       THEN (IF n > 2 THEN Lower(path.name[n - 1]) ELSE "")
       ELSE Lower(SplitExt(path))

MimeMajor(path) ==
  LET ext == MimeExt(path)
  IN CASE ext \in {"txt", "csv", "md"}          -> "text"
       [] ext \in {"jpg", "jpeg", "png", "gif"} -> "image"
       [] ext \in {"mp3", "wav"}                -> "audio"
       [] ext \in {"mp4", "avi"}                -> "video"
       [] ext \in {"sh", "exe", "bin", "zip", "tar", "pdf", "doc", "docx"}
                                                -> "application"
       [] OTHER -> ""

\* get_category comparing the extension as it is written
get_category_case_sensitive(file_path) ==
  LET category == MimeMajor(file_path)
      ext == SplitExt(file_path)
      hits == { c \in DOMAIN EXTENSION_CATEGORIES : ext \in EXTENSION_CATEGORIES[c] }
  IN IF category # "" /\ category \in DOMAIN EXTENSION_CATEGORIES THEN category
     ELSE IF hits # {} THEN CHOOSE c \in hits : TRUE
     ELSE "unknown"

get_category(file_path) ==
  LET category == MimeMajor(file_path)
      ext == Lower(SplitExt(file_path))
      hits == { c \in DOMAIN EXTENSION_CATEGORIES : ext \in EXTENSION_CATEGORIES[c] }
  IN IF category # "" /\ category \in DOMAIN EXTENSION_CATEGORIES THEN category
     ELSE IF hits # {} THEN CHOOSE c \in hits : TRUE
     ELSE "unknown"

\* ------------------------------------------------------------ analyze_file
\* What the file system answers to one analyze_file call: size is the file's
\* size and mode its permission bits; sizeErr / statErr is the exception
\* os.path.getsize / os.stat raises, "none" when the call succeeds.
Exceptions == {"FileNotFoundError", "PermissionError", "OSError"}

EnvsOf(modes) ==
  { e \in [size : 0..MaxSize, mode : modes,
           sizeErr : Exceptions \cup {"none"}, statErr : Exceptions \cup {"none"}] :
      e.sizeErr = "none" \/ e.statErr = "none" }

\* bool(file_stat.st_mode & bit)
HasBit(mode, bit) == (mode \div bit) % 2 = 1

\* The if / elif chain over the three "other" bits
PermissionLabelReadFirst(mode) ==
  IF HasBit(mode, S_IROTH) THEN "Readable by others"
  ELSE IF HasBit(mode, S_IWOTH) THEN "Writable by others"
  ELSE IF HasBit(mode, S_IXOTH) THEN "Executable by others"
  ELSE "normal"

PermissionLabel(mode) ==
  IF HasBit(mode, S_IWOTH) THEN "Writable by others"
  ELSE IF HasBit(mode, S_IROTH) THEN "Readable by others"
  ELSE IF HasBit(mode, S_IXOTH) THEN "Executable by others"
  ELSE "normal"

\* The except clause that catches exception exc, as the line it prints
ErrorLineGenericFirst(exc) == "error processing"

ErrorLine(exc) ==
  CASE exc = "FileNotFoundError" -> "not found"
    [] exc = "PermissionError"   -> "no permission"
    [] OTHER                     -> "error processing"

\* analyze_file without its try/except: the exception leaves the task
analyze_file_uncaught(file_path, size_threshold, env) ==
  LET info0 == [category |-> "unknown", size |-> 0, permissions |-> "normal"]
      info1 == [info0 EXCEPT !.size = env.size, !.category = get_category(file_path)]
      info2 == [info1 EXCEPT !.permissions = PermissionLabel(env.mode)]
  IN IF env.sizeErr # "none"
       THEN [path |-> file_path, info |-> info0, printed |-> "none", raised |-> env.sizeErr]
     ELSE IF env.statErr # "none"
       THEN [path |-> file_path, info |-> info1, printed |-> "none", raised |-> env.statErr]
     ELSE [path |-> file_path, info |-> info2, printed |-> "none", raised |-> "none"]

\* The task's outcome: the returned (file_path, file_info), the error line it
\* printed ("none" when it printed nothing) and the exception that left it
analyze_file(file_path, size_threshold, env) ==
  LET info0 == [category |-> "unknown", size |-> 0, permissions |-> "normal"]
      info1 == [info0 EXCEPT !.size = IF env.size > size_threshold
                                        THEN env.size ELSE env.size,
                             !.category = get_category(file_path)]
      info2 == [info1 EXCEPT !.permissions = PermissionLabel(env.mode)]
  IN IF env.sizeErr # "none"
       THEN [path |-> file_path, info |-> info0,
             printed |-> ErrorLine(env.sizeErr), raised |-> "none"]
     ELSE IF env.statErr # "none"
       THEN [path |-> file_path, info |-> info1,
             printed |-> ErrorLine(env.statErr), raised |-> "none"]
     ELSE [path |-> file_path, info |-> info2, printed |-> "none", raised |-> "none"]

\* ------------------------------------------------------- analyze_directory
VARIABLES
  pc,                  \* where analyze_directory is: "start", "walk", "merge",
                       \* "shutdown", "returned", "raised"
  rootIsDir,           \* whether the directory argument is an existing directory
  numFiles,            \* how many files of Universe the tree holds
  size_threshold,      \* the size_threshold argument
  max_workers,         \* the pool size of ThreadPoolExecutor()
  poolCreated,         \* the executor exists
  threads,             \* live worker threads of the executor
  futures,             \* the futures list, in submission order
  file_categories,     \* category -> total size
  large_files,         \* list of (file_path, size)
  unusual_permissions, \* list of (file_path, permissions)
  output,              \* the error lines printed so far, as (file_path, line)
  exc,                 \* the exception travelling out of the with block
  call,                \* a direct analyze_file call: its arguments
  ret,                 \* a direct analyze_file call: its outcome
  report,              \* what main printed last: "none", "report", "error"
                       \* or "traceback"
  exit_status          \* the exit status of the process once main is over

vars == << pc, rootIsDir, numFiles, size_threshold, max_workers, poolCreated,
           threads, futures, file_categories, large_files, unusual_permissions,
           output, exc, call, ret, report, exit_status, unreadable >>

EmptyMap == [c \in {} |-> 0]

NoPath == PathJoin(<<>>, <<>>)
NoEnv == [size |-> 0, mode |-> 0, sizeErr |-> "none", statErr |-> "none"]
NoResult == [path |-> NoPath,
             info |-> [category |-> "unknown", size |-> 0, permissions |-> "normal"],
             printed |-> "none", raised |-> "none"]
NoCall == [path |-> NoPath, threshold |-> 0, env |-> NoEnv]

\* The permission bits of the file at path
ModeAt(path) ==
  Universe[CHOOSE i \in 1..Len(Universe) : PathOf(i) = path].mode

\* os.path.isdir(directory)
IsDirectory(isdir) == isdir

\* file_categories[category] += size, on a defaultdict(int)
AddCategoryLost(cats, category, size) ==
  IF category \in DOMAIN cats THEN cats ELSE cats @@ (category :> size)

AddCategoryOverwrite(cats, category, size) ==
  IF category \in DOMAIN cats THEN [cats EXCEPT ![category] = size]
  ELSE cats @@ (category :> size)

AddCategory(cats, category, size) ==
  IF category \in DOMAIN cats THEN [cats EXCEPT ![category] = @ + size]
  ELSE cats @@ (category :> 0 + size)

\* file_info["size"] > size_threshold
IsLargeOrEqual(size, threshold) == size >= threshold

IsLarge(size, threshold) == size > threshold

\* file_info["permissions"] in [...]
IsUnusualTruthy(permissions) == permissions # ""

IsUnusual(permissions) ==
  permissions \in {"Writable by others", "Readable by others", "Executable by others"}

\* The body of the result loop for one (file_path, file_info)
MergeResult(agg, res, threshold) ==
  [ categories |-> IF res.info.category # ""
                     THEN AddCategory(agg.categories, res.info.category, res.info.size)
                     ELSE agg.categories,
    large |-> IF IsLarge(res.info.size, threshold)
                THEN Append(agg.large, <<res.path, res.info.size>>)
                ELSE agg.large,
    perms |-> IF IsUnusual(res.info.permissions)
                THEN Append(agg.perms, <<res.path, res.info.permissions>>)
                ELSE agg.perms ]

\* as_completed(futures) has nothing left to yield
AsCompletedStopsEarly(futs) == futs = <<>> \/ \E k \in 1..Len(futs) : futs[k].yielded

AsCompletedExhausted(futs) == \A k \in 1..Len(futs) : futs[k].yielded

\* executor.submit starts a worker thread while the pool has fewer than
\* max_workers
AdjustThreadCountUnbounded(n, limit) == n + 1

AdjustThreadCount(n, limit) == IF n < limit THEN n + 1 ELSE n

\* The result loop runs only after the submit loop has ended
InResultLoopWhileWalking(p) == p \in {"walk", "merge"}

InResultLoop(p) == p = "merge"

\* except OSError in main: every exception of the file system is an OSError
IsOSError(e) == e \in Exceptions

Running == { k \in 1..Len(futures) : futures[k].state = "running" }
Pending == { k \in 1..Len(futures) : futures[k].state = "pending" }

\* The directories of a tree of n entries, the root among them
Dirs(n) ==
  UNION { { SubSeq(Universe[i].dir, 1, m) : m \in 0..Len(Universe[i].dir) } :
            i \in 1..n } \cup {<<>>}

Init ==
  /\ pc = "start"
  /\ rootIsDir \in BOOLEAN
  /\ numFiles \in (IF rootIsDir THEN 0..MaxFiles ELSE {0})
  /\ size_threshold \in 0..MaxThreshold
  /\ max_workers \in 1..MaxWorkers
  /\ poolCreated = FALSE
  /\ threads = 0
  /\ futures = <<>>
  /\ file_categories = EmptyMap
  /\ large_files = <<>>
  /\ unusual_permissions = <<>>
  /\ output = {}
  /\ exc = "none"
  /\ call = NoCall
  /\ ret = NoResult
  /\ report = "none"
  /\ exit_status = 0
  /\ unreadable \in (IF rootIsDir THEN SUBSET Dirs(numFiles) ELSE {{}})

\* if not os.path.isdir(directory): raise OSError(...)
\* futures = []; with ThreadPoolExecutor() as executor:
CheckDirectory ==
  /\ pc = "start"
  /\ IF ~IsDirectory(rootIsDir)
       THEN pc' = "raised" /\ exc' = "OSError" /\ UNCHANGED poolCreated
       ELSE pc' = "walk" /\ poolCreated' = TRUE /\ UNCHANGED exc
  /\ UNCHANGED << rootIsDir, numFiles, size_threshold, max_workers, threads,
                  futures, file_categories, large_files, unusual_permissions,
                  output, call, ret,
                  report, exit_status, unreadable >>

\* futures.append(executor.submit(analyze_file, file_path, size_threshold)):
\* the task is queued, and the executor starts a thread while it has fewer
\* than max_workers
Submit ==
  /\ pc = "walk"
  /\ Len(futures) < Len(Walk(numFiles, <<>>))
  /\ futures' = Append(futures,
                  [path |-> Walk(numFiles, <<>>)[Len(futures) + 1],
                   state |-> "pending", yielded |-> FALSE,
                   env |-> NoEnv, result |-> NoResult])
  /\ threads' = AdjustThreadCount(threads, max_workers)
  /\ UNCHANGED << pc, rootIsDir, numFiles, size_threshold, max_workers,
                  poolCreated, file_categories, large_files,
                  unusual_permissions, output, exc, call, ret,
                  report, exit_status, unreadable >>

\* os.walk is exhausted: the submit loop ends and the result loop begins
WalkDone ==
  /\ pc = "walk"
  /\ Len(futures) = Len(Walk(numFiles, <<>>))
  /\ pc' = "merge"
  /\ UNCHANGED << rootIsDir, numFiles, size_threshold, max_workers, poolCreated,
                  threads, futures, file_categories, large_files,
                  unusual_permissions, output, exc, call, ret,
                  report, exit_status, unreadable >>

\* An idle worker thread takes the oldest queued task and begins analyze_file
StartTask(k) ==
  /\ pc \in {"walk", "merge", "shutdown"}
  /\ k \in Pending
  /\ \A j \in Pending : k <= j
  /\ Cardinality(Running) < threads
  /\ futures' = [futures EXCEPT ![k].state = "running"]
  /\ UNCHANGED << pc, rootIsDir, numFiles, size_threshold, max_workers,
                  poolCreated, threads, file_categories, large_files,
                  unusual_permissions, output, exc, call, ret,
                  report, exit_status, unreadable >>

\* analyze_file runs to its end against what the file system answers
FinishTask(k) ==
  /\ k \in Running
  /\ \E env \in EnvsOf({ModeAt(futures[k].path)}) :
       LET res == analyze_file(futures[k].path, size_threshold, env)
       IN /\ futures' = [futures EXCEPT ![k].state = "finished",
                                        ![k].env = env, ![k].result = res]
          /\ output' = IF res.printed # "none"
                         THEN output \cup {<<res.path, res.printed>>}
                         ELSE output
  /\ UNCHANGED << pc, rootIsDir, numFiles, size_threshold, max_workers,
                  poolCreated, threads, file_categories, large_files,
                  unusual_permissions, exc, call, ret,
                  report, exit_status, unreadable >>

\* for future in as_completed(futures): one iteration, on a finished future
\* not yet yielded.  future.result() raises what the task raised.
Merge(k) ==
  /\ InResultLoop(pc)
  /\ k \in 1..Len(futures)
  /\ futures[k].state = "finished"
  /\ ~futures[k].yielded
  /\ futures' = [futures EXCEPT ![k].yielded = TRUE]
  /\ IF futures[k].result.raised # "none"
       THEN /\ exc' = futures[k].result.raised
            /\ pc' = "shutdown"
            /\ UNCHANGED << file_categories, large_files, unusual_permissions >>
       ELSE LET agg == MergeResult([categories |-> file_categories,
                                    large |-> large_files,
                                    perms |-> unusual_permissions],
                                   futures[k].result, size_threshold)
            IN /\ file_categories' = agg.categories
               /\ large_files' = agg.large
               /\ unusual_permissions' = agg.perms
               /\ UNCHANGED << exc, pc >>
  /\ UNCHANGED << rootIsDir, numFiles, size_threshold, max_workers, poolCreated,
                  threads, output, call, ret,
                  report, exit_status, unreadable >>

\* The result loop ends; leaving the with block calls shutdown(wait=True)
MergeDone ==
  /\ pc = "merge"
  /\ AsCompletedExhausted(futures)
  /\ pc' = "shutdown"
  /\ UNCHANGED << rootIsDir, numFiles, size_threshold, max_workers, poolCreated,
                  threads, futures, file_categories, large_files,
                  unusual_permissions, output, exc, call, ret,
                  report, exit_status, unreadable >>

\* After shutdown an idle worker that finds the queue empty exits
WorkerExit ==
  /\ pc = "shutdown"
  /\ Pending = {}
  /\ Cardinality(Running) < threads
  /\ threads' = threads - 1
  /\ UNCHANGED << pc, rootIsDir, numFiles, size_threshold, max_workers,
                  poolCreated, futures, file_categories, large_files,
                  unusual_permissions, output, exc, call, ret,
                  report, exit_status, unreadable >>

\* shutdown(wait=True) has joined every worker: return the three aggregates
Return ==
  /\ pc = "shutdown"
  /\ threads = 0
  /\ pc' = IF exc = "none" THEN "returned" ELSE "raised"
  /\ UNCHANGED << rootIsDir, numFiles, size_threshold, max_workers, poolCreated,
                  threads, futures, file_categories, large_files,
                  unusual_permissions, output, exc, call, ret,
                  report, exit_status, unreadable >>

\* main: analyze_directory returned, print_report prints the three sections
\* and the process ends
MainReport ==
  /\ pc = "returned"
  /\ report = "none"
  /\ report' = "report"
  /\ exit_status' = 0
  /\ UNCHANGED << pc, rootIsDir, numFiles, size_threshold, max_workers,
                  poolCreated, threads, futures, file_categories, large_files,
                  unusual_permissions, output, exc, call, ret, unreadable >>

\* main: analyze_directory raised; except OSError prints "Error: ..." and main
\* returns, any other exception ends the process with a traceback
MainError ==
  /\ pc = "raised"
  /\ report = "none"
  /\ IF IsOSError(exc)
       THEN report' = "error" /\ exit_status' = 0
       ELSE report' = "traceback" /\ exit_status' = 1
  /\ UNCHANGED << pc, rootIsDir, numFiles, size_threshold, max_workers,
                  poolCreated, threads, futures, file_categories, large_files,
                  unusual_permissions, output, exc, call, ret, unreadable >>

Next ==
  \/ CheckDirectory
  \/ Submit
  \/ WalkDone
  \/ \E k \in 1..Len(futures) : StartTask(k)
  \/ \E k \in 1..Len(futures) : FinishTask(k)
  \/ \E k \in 1..Len(futures) : Merge(k)
  \/ MergeDone
  \/ WorkerExit
  \/ Return
  \/ MainReport
  \/ MainError

Spec == Init /\ [][Next]_vars

\* ------------------------------------------- analyze_file called on its own
InitFile ==
  /\ pc = "call"
  /\ call \in [path : {PathOf(i) : i \in 1..Len(Universe)},
               threshold : 0..MaxThreshold,
               env : EnvsOf(0..MaxMode)]
  /\ ret = NoResult
  /\ rootIsDir = TRUE
  /\ numFiles = 0
  /\ size_threshold = call.threshold
  /\ max_workers = 1
  /\ poolCreated = FALSE
  /\ threads = 0
  /\ futures = <<>>
  /\ file_categories = EmptyMap
  /\ large_files = <<>>
  /\ unusual_permissions = <<>>
  /\ output = {}
  /\ exc = "none"
  /\ report = "none"
  /\ exit_status = 0
  /\ unreadable = {}

CallAnalyzeFile ==
  /\ pc = "call"
  /\ ret' = analyze_file(call.path, call.threshold, call.env)
  /\ output' = IF ret'.printed # "none"
                 THEN output \cup {<<ret'.path, ret'.printed>>} ELSE output
  /\ pc' = "called"
  /\ UNCHANGED << rootIsDir, numFiles, size_threshold, max_workers, poolCreated,
                  threads, futures, file_categories, large_files,
                  unusual_permissions, exc, call, report, exit_status,
                  unreadable >>

NextFile == CallAnalyzeFile

SpecFile == InitFile /\ [][NextFile]_vars

\* ------------------------------------------- get_category called on its own
\* The extensions tried: those of the table, some in capitals, some unmapped
CategoryExts ==
  UNION { EXTENSION_CATEGORIES[c] : c \in DOMAIN EXTENSION_CATEGORIES }
    \cup {"TXT", "PNG", "SH", "PDF", "Mp3", "xyz", "XYZ", "dat"}

CategoryPaths ==
  { PathJoin(d, nm) :
      d \in {<<>>, <<"sub">>},
      nm \in { <<"a", e>> : e \in CategoryExts }
               \cup { <<"a">>, <<"", "txt">>, <<"a", "tar", "gz">>, <<"a", "b", "png">> } }

InitCategory ==
  /\ pc = "classify"
  /\ call \in [path : CategoryPaths, threshold : {0}, env : {NoEnv}]
  /\ ret = NoResult
  /\ rootIsDir = TRUE
  /\ numFiles = 0
  /\ size_threshold = 0
  /\ max_workers = 1
  /\ poolCreated = FALSE
  /\ threads = 0
  /\ futures = <<>>
  /\ file_categories = EmptyMap
  /\ large_files = <<>>
  /\ unusual_permissions = <<>>
  /\ output = {}
  /\ exc = "none"
  /\ report = "none"
  /\ exit_status = 0
  /\ unreadable = {}

CallGetCategory ==
  /\ pc = "classify"
  /\ ret' = [NoResult EXCEPT !.path = call.path,
                             !.info.category = get_category(call.path)]
  /\ pc' = "classified"
  /\ UNCHANGED << rootIsDir, numFiles, size_threshold, max_workers, poolCreated,
                  threads, futures, file_categories, large_files,
                  unusual_permissions, output, exc, call, report, exit_status,
                  unreadable >>

NextCategory == CallGetCategory

SpecCategory == InitCategory /\ [][NextCategory]_vars

\* ------------------------------------------------- vocabulary of the claims
Returned == pc = "returned"

Futs == 1..Len(futures)

\* The task of future k printed an error line / printed none
Failed(k) == futures[k].state = "finished" /\ futures[k].result.printed # "none"
Succeeded(k) == futures[k].state = "finished" /\ futures[k].result.printed = "none"

\* The file of future k was there throughout its inspection
Present(k) == /\ futures[k].env.sizeErr # "FileNotFoundError"
              /\ futures[k].env.statErr # "FileNotFoundError"

Logged(k) == \E line \in output : line[1] = futures[k].path

InLarge(path) == \E n \in 1..Len(large_files) : large_files[n][1] = path
InPerms(path) == \E n \in 1..Len(unusual_permissions) : unusual_permissions[n][1] = path

Total(c) == IF c \in DOMAIN file_categories THEN file_categories[c] ELSE 0

\* The sum of the sizes of the files of futures S
RECURSIVE SumSizes(_)
SumSizes(S) ==
  IF S = {} THEN 0
  ELSE LET k == CHOOSE j \in S : TRUE IN futures[k].env.size + SumSizes(S \ {k})

SucceededAs(c) == { k \in Futs : Succeeded(k) /\ get_category(futures[k].path) = c }

Categories == DOMAIN EXTENSION_CATEGORIES \cup {"unknown"}

\* The futures submitted for file i of the tree
FuturesOf(i) == { k \in Futs : futures[k].path = PathOf(i) }

Count(seq, x) == Cardinality({ n \in 1..Len(seq) : seq[n] = x })
SameBag(a, b) ==
  /\ Len(a) = Len(b)
  /\ \A n \in 1..Len(a) : Count(a, a[n]) = Count(b, a[n])

\* --------------------------------------------------------------- the claims

\* C1: a file whose inspection fails is logged and contributes nothing to the
\* returned aggregates: no category key is created or incremented for it, and
\* it is in neither the large-file list nor the unusual-permission list.
C1_FailedContributesNothing ==
  Returned =>
    /\ \A k \in Futs : Failed(k) =>
         Logged(k) /\ ~InLarge(futures[k].path) /\ ~InPerms(futures[k].path)
    /\ DOMAIN file_categories = { c \in Categories : SucceededAs(c) # {} }
    /\ \A c \in DOMAIN file_categories : file_categories[c] = SumSizes(SucceededAs(c))

\* C2: at return every category total is the sum of the sizes of exactly the
\* files that were inspected without error and classified as that category.
C2_TotalsAreSumsOfSucceeded ==
  Returned => \A c \in Categories : Total(c) = SumSizes(SucceededAs(c))

\* C3 as stated: every file under the root (one that is there when it is
\* inspected) is in the large-file list iff its size is strictly greater than
\* the threshold, listed with its size.
C3_EveryFileLargeIffAbove ==
  Returned =>
    \A i \in 1..numFiles : \A k \in FuturesOf(i) : Present(k) =>
      /\ InLarge(PathOf(i)) <=> futures[k].env.size > size_threshold
      /\ \A n \in 1..Len(large_files) :
           large_files[n][1] = PathOf(i) => large_files[n][2] = futures[k].env.size

\* C3 as amended: every file under the root whose size analyze_file retrieved
\* is in the large-file list iff its size is strictly greater than the
\* threshold (a size equal to the threshold is not listed), and is listed
\* with its size; a file whose size could not be retrieved is not listed.
C3_SizedFileLargeIffAbove ==
  Returned =>
    \A i \in 1..numFiles :
      /\ \A k \in FuturesOf(i) :
           IF futures[k].env.sizeErr = "none"
             THEN /\ InLarge(PathOf(i)) <=> futures[k].env.size > size_threshold
                  /\ futures[k].env.size = size_threshold => ~InLarge(PathOf(i))
                  /\ \A n \in 1..Len(large_files) :
                       large_files[n][1] = PathOf(i)
                         => large_files[n][2] = futures[k].env.size
             ELSE ~InLarge(PathOf(i))

C3_Witness ==
  /\ Returned
  /\ \E j, k \in Futs :
       /\ futures[j].env.sizeErr = "none" /\ futures[k].env.sizeErr = "none"
       /\ futures[j].env.size = size_threshold /\ ~InLarge(futures[j].path)
       /\ futures[k].env.size > size_threshold /\ InLarge(futures[k].path)

\* The aggregates of a sequential run: the files inspected and merged one at a
\* time, in the order of the walk
RECURSIVE SequentialRun(_)
SequentialRun(n) ==
  IF n = 0 THEN [categories |-> EmptyMap, large |-> <<>>, perms |-> <<>>]
  ELSE MergeResult(SequentialRun(n - 1),
                   analyze_file(futures[n].path, size_threshold, futures[n].env),
                   size_threshold)

\* C4: whatever the number of files, the pool size and the completion order,
\* the returned aggregates are those of the sequential run (totals as a map,
\* the two lists as unordered collections).
C4_SameAsSequential ==
  Returned =>
    /\ Len(futures) = Len(Walk(numFiles, <<>>))
    /\ file_categories = SequentialRun(Len(futures)).categories
    /\ SameBag(large_files, SequentialRun(Len(futures)).large)
    /\ SameBag(unusual_permissions, SequentialRun(Len(futures)).perms)

C4_Witness ==
  /\ Returned
  /\ max_workers >= 2
  /\ Len(futures) >= 2
  /\ Len(large_files) >= 2
  /\ large_files[1][1] = futures[2].path
  /\ large_files[2][1] = futures[1].path
  /\ futures[1].result.info.category = futures[2].result.info.category

\* C5: when the root does not exist or cannot be opened analyze_directory
\* raises OSError before the pool exists or any task is submitted, and never
\* returns aggregates.
C5_BadRootFailsBeforeDispatch ==
  (~rootIsDir \/ <<>> \in unreadable) =>
    /\ pc \in {"start", "raised"}
    /\ pc = "raised" => exc = "OSError"
    /\ ~poolCreated /\ threads = 0 /\ futures = <<>>
    /\ file_categories = EmptyMap /\ large_files = <<>> /\ unusual_permissions = <<>>

\* C6: at return every file of the walk was submitted, every submitted task
\* has finished and its result has been merged, and no worker thread is left.
C6_ReturnsAfterAllMerged ==
  Returned =>
    /\ Len(futures) = Len(Walk(numFiles, <<>>))
    /\ \A k \in Futs : futures[k].state = "finished" /\ futures[k].yielded
    /\ threads = 0

C6_Witness ==
  /\ Returned
  /\ max_workers >= 2
  /\ Len(futures) >= 2
  /\ \A k \in Futs : futures[k].yielded

C8_FileErrorsStayInside ==
  /\ rootIsDir => pc # "raised" /\ exc = "none"
  /\ Returned =>
       /\ Len(futures) = Len(Walk(numFiles, <<>>))
       /\ \A k \in Futs :
            /\ futures[k].state = "finished" /\ futures[k].yielded
            /\ Succeeded(k) =>
                 /\ futures[k].result.info.category \in DOMAIN file_categories
                 /\ futures[k].env.size > size_threshold => InLarge(futures[k].path)
                 /\ futures[k].result.info.permissions # "normal"
                      => InPerms(futures[k].path)

C8_Witness ==
  /\ Returned
  /\ \E j, k \in Futs :
       /\ Failed(j) /\ Logged(j)
       /\ Succeeded(k) /\ InLarge(futures[k].path) /\ InPerms(futures[k].path)

\* C9: analyze_file labels the permissions by the chain write > read > execute
\* for every combination of the three "other" bits.
C9_PermissionPriority ==
  (pc = "called" /\ call.env.sizeErr = "none" /\ call.env.statErr = "none") =>
    LET w == HasBit(call.env.mode, S_IWOTH)
        r == HasBit(call.env.mode, S_IROTH)
        x == HasBit(call.env.mode, S_IXOTH)
        label == ret.info.permissions
    IN /\ w => label = "Writable by others"
       /\ (~w /\ r) => label = "Readable by others"
       /\ (~w /\ ~r /\ x) => label = "Executable by others"
       /\ (~w /\ ~r /\ ~x) => label = "normal"

C9_Witness ==
  /\ pc = "called"
  /\ call.env.sizeErr = "none" /\ call.env.statErr = "none"
  /\ HasBit(call.env.mode, S_IWOTH)
  /\ HasBit(call.env.mode, S_IROTH)
  /\ HasBit(call.env.mode, S_IXOTH)
  /\ ret.info.permissions = "Writable by others"

AnyOtherBit(mode) ==
  HasBit(mode, S_IWOTH) \/ HasBit(mode, S_IROTH) \/ HasBit(mode, S_IXOTH)

\* C10 as stated: a file (one that is there when it is inspected) is in the
\* unusual-permission list iff its permission flag is not normal, that is iff
\* one of the three "other" bits is set on it.
C10_ListedIffAnyOtherBit ==
  Returned =>
    \A i \in 1..numFiles : \A k \in FuturesOf(i) : Present(k) =>
      /\ InPerms(PathOf(i)) <=> futures[k].result.info.permissions # "normal"
      /\ InPerms(PathOf(i)) <=> AnyOtherBit(Universe[i].mode)

\* C10 as amended: a file is in the unusual-permission list iff the permission
\* flag analyze_file recorded for it is not normal; for a file whose
\* permission bits were retrieved that is iff one of the three "other" bits
\* is set on it, and a file whose inspection failed is not listed.
C10_ListedIffFlagged ==
  Returned =>
    \A i \in 1..numFiles :
      /\ \A k \in FuturesOf(i) :
           /\ InPerms(PathOf(i)) <=> futures[k].result.info.permissions # "normal"
           /\ Succeeded(k) => (InPerms(PathOf(i)) <=> AnyOtherBit(Universe[i].mode))
           /\ Failed(k) => ~InPerms(PathOf(i))

C10_Witness ==
  /\ Returned
  /\ \E j, k \in Futs :
       /\ Succeeded(j) /\ AnyOtherBit(futures[j].env.mode) /\ InPerms(futures[j].path)
       /\ Succeeded(k) /\ ~AnyOtherBit(futures[k].env.mode) /\ ~InPerms(futures[k].path)

\* The directory d is met by the walk: every directory above it can be listed
Met(d) == \A m \in 0..(Len(d) - 1) : SubSeq(d, 1, m) \notin unreadable

\* C11: a subdirectory the walk cannot open is reported (a line is printed
\* for it) and the walk goes on: every file of the directories that can be
\* listed is submitted and merged.
C11_UnreadableSubdirLogged ==
  Returned =>
    /\ \A d \in unreadable : (d # <<>> /\ Met(d)) =>
         \E line \in output : line[1].dir = d /\ line[1].name = <<>>
    /\ \A i \in 1..numFiles : (Met(Universe[i].dir) /\ Universe[i].dir \notin unreadable) =>
         \E k \in FuturesOf(i) : futures[k].yielded

\* C12: when the directory cannot be analysed main prints an error and the
\* process exits with a non-zero status; otherwise it prints the report and
\* exits with status zero.
C12_ExitStatus ==
  report # "none" =>
    IF pc = "raised"
      THEN report = "error" /\ exit_status # 0
      ELSE report = "report" /\ exit_status = 0

\* C13: get_category always returns one of the eight categories: the MIME
\* broad type when it is one of the seven known ones, otherwise the category
\* whose table holds the extension lowercased and without its dot, otherwise
\* "unknown".
C13_CategoryRule ==
  pc = "classified" =>
    LET c == ret.info.category
        major == MimeMajor(call.path)
        ext == Lower(SplitExt(call.path))
        seven == DOMAIN EXTENSION_CATEGORIES
        mapped == \E t \in seven : ext \in EXTENSION_CATEGORIES[t]
    IN /\ c \in Categories
       /\ major \in seven => c = major
       /\ (major \notin seven /\ mapped) => (c \in seven /\ ext \in EXTENSION_CATEGORIES[c])
       /\ (major \notin seven /\ ~mapped) => c = "unknown"
       /\ call.path.name = <<"a", "txt">> => c = "text"
       /\ call.path.name = <<"a", "png">> => c = "image"
       /\ call.path.name = <<"a", "xyz">> => c = "unknown"
       /\ call.path.name = <<"a", "SH">> => c = "executable"
       /\ call.path.name = <<"a", "PDF">> => c = "document"

C13_Witness ==
  /\ pc = "classified"
  /\ call.path.name = <<"a", "SH">>
  /\ MimeMajor(call.path) \notin DOMAIN EXTENSION_CATEGORIES
  /\ ret.info.category = "executable"

\* What the entry at path is
KindAt(path) ==
  Universe[CHOOSE i \in 1..Len(Universe) : PathOf(i) = path].kind

\* C14: every path submitted for inspection is a regular file under the root.
C14_OnlyRegularFilesSubmitted ==
  \A k \in Futs : KindAt(futures[k].path) = "regular"

\* C15: the aggregates change only in a step of the result loop of the calling
\* thread, which consumes exactly one finished future and adds exactly its
\* record (its size to its category total, at most one entry to each list);
\* a step in which a worker starts or finishes a task leaves them alone.
C15_MergeSerialized ==
  [][ LET aggs == << file_categories, large_files, unusual_permissions >>
          consumed == { k \in Futs : ~futures[k].yielded /\ futures'[k].yielded }
          worked == { k \in Futs : futures'[k].state # futures[k].state }
      IN /\ worked # {} => aggs' = aggs /\ consumed = {}
         /\ (aggs' # aggs \/ consumed # {}) =>
              /\ pc = "merge"
              /\ worked = {}
              /\ Cardinality(consumed) = 1
              /\ \A k \in consumed :
                   LET r == futures[k].result
                   IN /\ futures[k].state = "finished"
                      /\ Total(r.info.category)' = Total(r.info.category) + r.info.size
                      /\ \A c \in Categories \ {r.info.category} : Total(c)' = Total(c)
                      /\ large_files' \in {large_files,
                                           Append(large_files, <<r.path, r.info.size>>)}
                      /\ unusual_permissions' \in
                           {unusual_permissions,
                            Append(unusual_permissions, <<r.path, r.info.permissions>>)}
    ]_vars

C15_Witness ==
  /\ pc = "merge"
  /\ \E j, k \in Futs :
       /\ futures[j].yielded
       /\ futures[k].state = "running"
       /\ futures[j].result.info.category = get_category(futures[k].path)
       /\ Total(futures[j].result.info.category) > 0

\* C16: the tasks executing at the same time never exceed the pool size, nor
\* do the worker threads; the other tasks wait in the queue.
C16_PoolBounded ==
  /\ Cardinality(Running) <= max_workers
  /\ threads <= max_workers

C16_Witness ==
  /\ Cardinality(Running) = max_workers
  /\ Pending # {}

\* C17: when size retrieval fails, analyze_file reports exactly one line for
\* the file, of the kind of the failure: not found, no permission, or the
\* general one for any other error.
C17_ErrorKindMatchesCause ==
  (pc = "called" /\ call.env.sizeErr # "none") =>
    /\ call.env.sizeErr = "FileNotFoundError" => output = {<<call.path, "not found">>}
    /\ call.env.sizeErr = "PermissionError" => output = {<<call.path, "no permission">>}
    /\ call.env.sizeErr = "OSError" => output = {<<call.path, "error processing">>}
    /\ Cardinality(output) = 1

C17_Witness ==
  /\ pc = "called"
  /\ call.env.sizeErr = "PermissionError"
  /\ output = {<<call.path, "no permission">>}

\* C18: a path is at most once in the large-file list and at most once in the
\* unusual-permission list.
C18_PathsListedOnce ==
  /\ \A n, m \in 1..Len(large_files) :
       large_files[n][1] = large_files[m][1] => n = m
  /\ \A n, m \in 1..Len(unusual_permissions) :
       unusual_permissions[n][1] = unusual_permissions[m][1] => n = m

C18_Witness ==
  /\ Returned
  /\ Len(large_files) = 2
  /\ Len(unusual_permissions) = 1

Yielded == { k \in Futs : futures[k].yielded }

\* C19: nothing is merged before the walk has ended and every task has been
\* submitted: during the walk no future is consumed and the aggregates are
\* empty, and when the first result is merged all the files of the walk
\* have been submitted.
C19_MergeAfterAllSubmitted ==
  /\ pc \in {"start", "walk"} =>
       /\ Yielded = {}
       /\ file_categories = EmptyMap /\ large_files = <<>> /\ unusual_permissions = <<>>
  /\ (Yielded # {} \/ pc = "merge") => Len(futures) = Len(Walk(numFiles, <<>>))

C19_Witness ==
  /\ pc = "merge"
  /\ Len(futures) >= 2
  /\ Cardinality(Yielded) = 1
  /\ \E k \in Futs : futures[k].state = "running"

====
